---- MODULE Spec2Model ----
(***************************************************************************)
(* Model of updateSchema.py: main() reads a target directory and a menu    *)
(* choice, then getLut()/getGo() delete the stale "*.ts" files of the      *)
(* variant's subdirectory, download the schema file into the target        *)
(* directory and run flatc on it.                                          *)
(*                                                                         *)
(* Strings the code computes on (names, paths, the URL, the choice) are    *)
(* sequences of one-character strings, so that endswith, basename, join,   *)
(* isdigit and int are computed and not assumed.                           *)
(***************************************************************************)
EXTENDS Integers, Sequences, FiniteSets, TLC

VARIABLES
    pc,         \* position of the process (see PcValues)
    fault,      \* the exception that left main() unhandled, <<>> if none
    dir,        \* main: dir = input("Enter the directory: ")
    choice,     \* main: choice = input("Enter the number of your choice: ")
    fn,         \* the procedure main() called: "getLut", "getGo" or "none"
    subdirs,    \* disk: existing subdirectories of the target directory -> set of entry names
    root,       \* disk: existing files of the target directory root -> content
    disk0,      \* history: the disk when the process started
    listing,    \* the list os.listdir returned
    todo,       \* the part of listing the for loop has not visited yet
    attempted,  \* entries os.remove was called on, in order
    failed,     \* entries whose os.remove raised
    getCalls,   \* URLs requests.get was called with, in order
    response,   \* <<r>> once requests.get returned r, <<>> before
    filepath,   \* local filepath of getLut/getGo, <<>> while unset
    writes,     \* paths open(..., "wb") was called on, in order
    runCalls,   \* argument vectors subprocess.run was called with, in order
    result,     \* <<r>> once subprocess.run returned r, <<>> before
    out,        \* the lines printed, in order
    pass,       \* which execution of the cleanup stage this is (1, or 2 under SpecStageA)
    pair        \* SpecPair only: the arguments and outcomes getLut and getGo are
                \* run on side by side, and what each did

vars == <<pc, fault, dir, choice, fn, subdirs, root, disk0, listing, todo,
          attempted, failed, getCalls, response, filepath, writes, runCalls,
          result, out, pass, pair>>

\* what only SpecStageA and SpecPair change
aux == <<pass, pair>>

----------------------------------------------------------------------------
\* Bounds of the model

\* most entries a cleanup subdirectory holds when the process starts
MaxEntries == 2

\* longest response body
MaxBody == 2

----------------------------------------------------------------------------
\* String constants of the program

SEP == "/"

S_lut  == <<"l", "u", "t">>
S_tree == <<"t", "r", "e", "e">>
S_ts   == <<".", "t", "s">>
S_flatc == <<"f", "l", "a", "t", "c">>
S_dashdash_ts == <<"-", "-", "t", "s">>
S_dash_o == <<"-", "o">>

UrlPrefix ==
    <<"h","t","t","p","s",":","/","/",
      "r","a","w",".","g","i","t","h","u","b","u","s","e","r",
      "c","o","n","t","e","n","t",".","c","o","m","/",
      "E","x","p","l","o","s","i","o","n","H","m","/",
      "s","c","h","e","m","a","s","-","o","p","t","i","c","o","d","e","/",
      "m","a","i","n","/">>

LutUrl == UrlPrefix \o <<"l","u","t",".","f","b","s">>
GoUrl  == UrlPrefix \o <<"g","o",".","f","b","s">>

options == <<"LUT", "Go">>

----------------------------------------------------------------------------
\* Library functions the program calls, computed as the library computes them

\* a confusion of endswith with startswith
EndsWith_startswith(s, suffix) ==
    /\ Len(s) >= Len(suffix)
    /\ SubSeq(s, 1, Len(suffix)) = suffix

\* a comparison that leaves out the first character of the suffix
EndsWith_tail(s, suffix) ==
    /\ Len(s) >= Len(suffix) - 1
    /\ SubSeq(s, Len(s) - Len(suffix) + 2, Len(s)) = Tail(suffix)

\* str.endswith
EndsWith(s, suffix) ==
    /\ Len(s) >= Len(suffix)
    /\ SubSeq(s, Len(s) - Len(suffix) + 1, Len(s)) = suffix

\* index of the last SEP of p, 0 if there is none
LastSep(p) ==
    LET hits == {i \in 1..Len(p) : p[i] = SEP}
    IN  IF hits = {} THEN 0 ELSE CHOOSE i \in hits : \A j \in hits : j <= i

\* os.path.basename (posixpath): what follows the last "/"
Basename(p) == SubSeq(p, LastSep(p) + 1, Len(p))

\* os.path.join (posixpath), two arguments
Join(a, b) ==
    IF Len(b) > 0 /\ b[1] = SEP THEN b
    ELSE IF a = <<>> \/ a[Len(a)] = SEP THEN a \o b
    ELSE a \o <<SEP>> \o b

DecimalChars == {"0", "1", "2", "3", "4", "5", "6", "7", "8", "9"}

\* characters str.isdigit accepts: the decimal digits and the other characters
\* of Unicode numeric type Digit, of which SUPERSCRIPT TWO stands here
DigitChars == DecimalChars \cup {"sup2"}

\* str.isdigit: non-empty, and every character is a digit
IsDigit(s) == Len(s) > 0 /\ \A i \in 1..Len(s) : s[i] \in DigitChars

DigitVal(c) ==
    CASE c = "0" -> 0 [] c = "1" -> 1 [] c = "2" -> 2 [] c = "3" -> 3
      [] c = "4" -> 4 [] c = "5" -> 5 [] c = "6" -> 6 [] c = "7" -> 7
      [] c = "8" -> 8 [] c = "9" -> 9

\* int(s) raises ValueError on a string of digits that are not all decimal
\* (called only where isdigit holds: no sign, no blank, no underscore)
IntRaises(s) == \E i \in 1..Len(s) : s[i] \notin DecimalChars

RECURSIVE IntOf(_)
IntOf(s) ==
    IF s = <<>> THEN 0
    ELSE 10 * IntOf(SubSeq(s, 1, Len(s) - 1)) + DigitVal(s[Len(s)])

\* Response.raise_for_status raises HTTPError for 4xx and 5xx, and only those
RaisesForStatus(status) == 400 <= status /\ status < 600

----------------------------------------------------------------------------
\* Inputs and environment outcomes

\* entry names a cleanup subdirectory may hold
Names ==
    { <<"a", ".", "t", "s">>,        \* a.ts
      <<".", "t", "s">>,             \* .ts
      <<"c", ".", "t", "x", "t">>,   \* c.txt
      <<"t", "s">> }                 \* ts

\* what the user may type as the target directory
Dirs == { <<"/", "x">>, <<"/", "x", "/">> }

\* what the user may type as the choice
Choices ==
    { <<"1">>, <<"2">>, <<"0", "1">>,      \* valid
      <<"0">>, <<"3">>, <<"1", "2">>,      \* numeric, out of range
      <<"-", "1">>, <<"a">>, <<>>,          \* not numeric
      <<"sup2">> }                         \* isdigit, but no int

\* status of the final response of requests.get (redirects with a Location
\* are followed by the library, a 3xx without one is returned as it is)
Statuses == {200, 304, 404}

\* response bodies: byte strings up to MaxBody long over one byte value
Bodies == { [i \in 1..n |-> 7] : n \in 1..MaxBody }

OldBody == <<9>>

Responses == [status : Statuses, content : Bodies]

\* subprocess.run results (CompletedProcess): returncode, stdout, stderr
Results == [returncode : {0, 1}, stdout : {<<"o">>}, stderr : {<<>>, <<"e">>}]

RECURSIVE Perms(_)
\* the orders os.listdir may return the entries of a directory in
Perms(S) ==
    IF S = {} THEN { <<>> }
    ELSE UNION { { <<x>> \o p : p \in Perms(S \ {x}) } : x \in S }

Range(s) == { s[i] : i \in 1..Len(s) }

Line(kind, arg) == [kind |-> kind, arg |-> arg]

\* getGo left cleaning the subdirectory of getLut
SubdirOf_copied(f) == S_lut

\* the subdirectory each procedure cleans
SubdirOf(f) == IF f = "getLut" THEN S_lut ELSE S_tree

\* the arguments main() passes
SuffixOf(f) == S_ts
UrlOf(f) == IF f = "getLut" THEN LutUrl ELSE GoUrl

PcValues == {"Idle", "Listing", "Cleaning", "Fetching", "Writing", "Generating",
             "Done", "Aborted", "Rejected", "Fault"}

----------------------------------------------------------------------------
\* Initial states: a disk, and a process that has read nothing yet

DirStates == { S \in SUBSET Names : Cardinality(S) <= MaxEntries }

Init ==
    /\ pc = "Idle"
    /\ fault = <<>>
    /\ dir = <<>>
    /\ choice = <<>>
    /\ fn = "none"
    /\ \E D \in SUBSET {S_lut, S_tree} : subdirs \in [D -> DirStates]
    /\ \E F \in SUBSET {Basename(LutUrl), Basename(GoUrl)} : root = [f \in F |-> OldBody]
    /\ disk0 = [subdirs |-> subdirs, root |-> root]
    /\ listing = <<>>
    /\ todo = <<>>
    /\ attempted = <<>>
    /\ failed = {}
    /\ getCalls = <<>>
    /\ response = <<>>
    /\ filepath = <<>>
    /\ writes = <<>>
    /\ runCalls = <<>>
    /\ result = <<>>
    /\ out = <<>>
    /\ pass = 1
    /\ pair = <<>>

----------------------------------------------------------------------------
\* main()

Menu ==
    <<Line("Pick a schema:", <<>>)>>
        \o [i \in 1..Len(options) |-> Line("option", <<i, options[i]>>)]

\* the validation of the choice: "ok", "invalid" (message and return) or
\* "raises" (int() raises ValueError inside the condition)
Validate(c) ==
    IF ~IsDigit(c) THEN "invalid"
    ELSE IF IntRaises(c) THEN "raises"
    ELSE IF ~(1 <= IntOf(c) /\ IntOf(c) <= Len(options)) THEN "invalid"
    ELSE "ok"

\* the two branches of the dispatch swapped
Dispatch_swapped(c) ==
    LET selected == options[IntOf(c)]
    IN  IF selected = options[1] THEN "getGo"
        ELSE IF selected = options[2] THEN "getLut"
        ELSE "none"

\* the procedure main() calls for a valid choice
Dispatch(c) ==
    LET selected == options[IntOf(c)]
    IN  IF selected = options[1] THEN "getLut"
        ELSE IF selected = options[2] THEN "getGo"
        ELSE "none"

Main(d, c) ==
    /\ pc = "Idle"
    /\ dir' = d
    /\ choice' = c
    /\ CASE Validate(c) = "invalid" ->
              /\ out' = out \o Menu \o <<Line("Invalid choice", <<>>)>>
              /\ pc' = "Rejected"
              /\ UNCHANGED <<fault, fn>>
         [] Validate(c) = "raises" ->
              /\ out' = out \o Menu
              /\ pc' = "Fault"
              /\ fault' = <<"ValueError">>
              /\ UNCHANGED fn
         [] Validate(c) = "ok" ->
              /\ out' = out \o Menu
              /\ fn' = Dispatch(c)
              /\ pc' = IF Dispatch(c) = "none" THEN "Done" ELSE "Listing"
              /\ UNCHANGED fault
    /\ UNCHANGED <<subdirs, root, disk0, listing, todo, attempted, failed,
                   getCalls, response, filepath, writes, runCalls, result>>
    /\ UNCHANGED aux

----------------------------------------------------------------------------
\* getLut() / getGo(): delete old files with suffix

\* a listing that takes a missing directory for an empty one
ListDirOutcomes_lenient(sub) ==
    IF sub \notin DOMAIN subdirs
    THEN { [raises |-> FALSE, list |-> <<>>] }
    ELSE { [raises |-> FALSE, list |-> l] : l \in Perms(subdirs[sub]) }

\* os.listdir(os.path.join(directory, sub)): raises FileNotFoundError when the
\* directory does not exist, else returns its entries in some order
ListDirOutcomes(sub) ==
    IF sub \notin DOMAIN subdirs
    THEN { [raises |-> TRUE, list |-> <<>>] }
    ELSE { [raises |-> FALSE, list |-> l] : l \in Perms(subdirs[sub]) }

ListDir ==
    /\ pc = "Listing"
    /\ \E o \in ListDirOutcomes(SubdirOf(fn)) :
          IF o.raises
          THEN /\ pc' = "Fault"
               /\ fault' = <<"FileNotFoundError">>
               /\ UNCHANGED <<listing, todo>>
          ELSE /\ pc' = "Cleaning"
               /\ listing' = o.list
               /\ todo' = o.list
               /\ UNCHANGED fault
    /\ UNCHANGED <<dir, choice, fn, subdirs, root, disk0, attempted, failed,
                   getCalls, response, filepath, writes, runCalls, result, out>>
    /\ UNCHANGED aux

\* a loop that stops at the first os.remove that raises
RestAfterRemove_break(ok, rest) == IF ok THEN rest ELSE <<>>

\* what is left of the loop after os.remove returned (ok) or raised (~ok):
\* the except clause prints and the loop goes on
RestAfterRemove(ok, rest) == rest

\* one iteration of the for loop
CleanStep ==
    /\ pc = "Cleaning"
    /\ todo # <<>>
    /\ LET filename == Head(todo)
           sub == SubdirOf(fn)
           file_path == Join(Join(dir, sub), filename)
       IN  IF EndsWith(filename, SuffixOf(fn))
           THEN /\ attempted' = Append(attempted, filename)
                /\ \E ok \in BOOLEAN :
                      /\ IF ok
                         THEN /\ subdirs' = [subdirs EXCEPT ![sub] = @ \ {filename}]
                              /\ out' = Append(out, Line("Deleted", file_path))
                              /\ UNCHANGED failed
                         ELSE /\ failed' = failed \cup {filename}
                              /\ out' = Append(out, Line("Error deleting", file_path))
                              /\ UNCHANGED subdirs
                      /\ todo' = RestAfterRemove(ok, Tail(todo))
           ELSE /\ todo' = Tail(todo)
                /\ UNCHANGED <<attempted, failed, subdirs, out>>
    /\ UNCHANGED <<pc, fault, dir, choice, fn, root, disk0, listing,
                   getCalls, response, filepath, writes, runCalls, result>>
    /\ UNCHANGED aux

\* a fetch that does not wait for the loop to end
EndCleanup_early ==
    /\ pc = "Cleaning"
    /\ pc' = "Fetching"
    /\ UNCHANGED <<fault, dir, choice, fn, subdirs, root, disk0, listing, todo,
                   attempted, failed, getCalls, response, filepath, writes,
                   runCalls, result, out>>
    /\ UNCHANGED aux

\* the for loop is exhausted
EndCleanup ==
    /\ pc = "Cleaning"
    /\ todo = <<>>
    /\ pc' = "Fetching"
    /\ UNCHANGED <<fault, dir, choice, fn, subdirs, root, disk0, listing, todo,
                   attempted, failed, getCalls, response, filepath, writes,
                   runCalls, result, out>>
    /\ UNCHANGED aux

----------------------------------------------------------------------------
\* getLut() / getGo(): fetch file from GitHub

\* a download error that is printed but not returned from
PcAfterDownloadError_noreturn == "Generating"

\* where the process is after the except clause of the download: it prints
\* and returns
PcAfterDownloadError == "Aborted"

\* requests.get and raise_for_status
Fetch ==
    /\ pc = "Fetching"
    /\ getCalls' = Append(getCalls, UrlOf(fn))
    /\ \/ \* requests.get raises (connection error, too many redirects, ...)
          /\ out' = Append(out, Line("Error downloading file", <<"RequestException">>))
          /\ pc' = PcAfterDownloadError
          /\ UNCHANGED response
       \/ \E r \in Responses :
             /\ response' = <<r>>
             /\ IF RaisesForStatus(r.status)
                THEN /\ out' = Append(out, Line("Error downloading file", <<"HTTPError">>))
                     /\ pc' = PcAfterDownloadError
                ELSE /\ pc' = "Writing"
                     /\ UNCHANGED out
    /\ UNCHANGED <<fault, dir, choice, fn, subdirs, root, disk0, listing, todo,
                   attempted, failed, filepath, writes, runCalls, result>>
    /\ UNCHANGED aux

\* the proper prefixes of a body (what a write that raised may leave behind)
Partial(body) == { SubSeq(body, 1, n) : n \in 0..(Len(body) - 1) }

\* a file opened in mode "ab": the body lands after the old content
ContentAfterWrite_append(old, body) == old \o body

\* the content of the file after open(filepath, "wb") and f.write(body):
\* "wb" truncates, so nothing of the old content is left
ContentAfterWrite(old, body) == body

OldContent(name) == IF name \in DOMAIN root THEN root[name] ELSE <<>>

Put(name, content) ==
    [n \in DOMAIN root \cup {name} |-> IF n = name THEN content ELSE root[n]]

\* basename, join, open, write
Write ==
    /\ pc = "Writing"
    /\ LET filename == Basename(UrlOf(fn))
           body == response[1].content
       IN  /\ filepath' = Join(dir, filename)
           /\ writes' = Append(writes, filepath')
           /\ \/ \* open raises: nothing on disk changes
                 /\ out' = Append(out, Line("Error downloading file", <<"OSError">>))
                 /\ pc' = PcAfterDownloadError
                 /\ UNCHANGED root
              \/ \* write raises after open truncated the file
                 /\ \E p \in Partial(body) : root' = Put(filename, p)
                 /\ out' = Append(out, Line("Error downloading file", <<"OSError">>))
                 /\ pc' = PcAfterDownloadError
              \/ /\ root' = Put(filename, ContentAfterWrite(OldContent(filename), body))
                 /\ out' = Append(out, Line("Downloaded", filename))
                 /\ pc' = "Generating"
    /\ UNCHANGED <<fault, dir, choice, fn, subdirs, disk0, listing, todo,
                   attempted, failed, getCalls, response, runCalls, result>>
    /\ UNCHANGED aux

----------------------------------------------------------------------------
\* getLut() / getGo(): run flatc

\* a launch failure that is not caught
PcAfterRun_uncaught(launched, r) == IF launched THEN "Done" ELSE "Fault"

\* a return code that is acted upon
PcAfterRun_checked(launched, r) ==
    IF launched /\ r.returncode # 0 THEN "Aborted" ELSE "Done"

\* where the process is after subprocess.run returned r (launched) or raised
\* (~launched): check=False, the return code is not read, the except clause
\* prints, and the procedure and main() return
PcAfterRun(launched, r) == "Done"

\* an input argument that is the file name, not its path
FlatcArgs_basename(f, directory, path) ==
    <<S_flatc, S_dashdash_ts, S_dash_o, directory, Basename(path)>>

\* a language flag chosen by the variant
FlatcArgs_byVariant(f, directory, path) ==
    <<S_flatc, IF f = "getGo" THEN <<"-", "-", "g", "o">> ELSE S_dashdash_ts,
      S_dash_o, directory, path>>

\* the argument vector procedure f passes to subprocess.run
FlatcArgs(f, directory, path) ==
    <<S_flatc, S_dashdash_ts, S_dash_o, directory, path>>

NoResult == [returncode |-> 0, stdout |-> <<>>, stderr |-> <<>>]

Generate ==
    /\ pc = "Generating"
    /\ runCalls' = Append(runCalls, FlatcArgs(fn, dir, filepath))
    /\ \/ \* subprocess.run raises (flatc not found, not executable, ...)
          /\ out' = Append(out, Line("Error running flatc", <<"OSError">>))
          /\ pc' = PcAfterRun(FALSE, NoResult)
          /\ UNCHANGED result
       \/ \E r \in Results :
             /\ result' = <<r>>
             /\ out' = out \o <<Line("Command output", r.stdout)>>
                           \o (IF r.stderr # <<>>
                               THEN <<Line("Command error", r.stderr)>>
                               ELSE <<>>)
             /\ pc' = PcAfterRun(TRUE, r)
    /\ UNCHANGED <<fault, dir, choice, fn, subdirs, root, disk0, listing, todo,
                   attempted, failed, getCalls, response, filepath, writes>>
    /\ UNCHANGED aux

----------------------------------------------------------------------------

Next ==
    \/ \E d \in Dirs, c \in Choices : Main(d, c)
    \/ ListDir
    \/ CleanStep
    \/ EndCleanup
    \/ Fetch
    \/ Write
    \/ Generate

Spec == Init /\ [][Next]_vars

----------------------------------------------------------------------------
\* The cleanup stage executed twice in a row on the same directory

\* the procedure is entered again once its loop is over: what it listed and
\* attempted is forgotten, the disk is what the first execution left
Rerun ==
    /\ pc = "Cleaning"
    /\ todo = <<>>
    /\ pass = 1
    /\ pass' = 2
    /\ pc' = "Listing"
    /\ disk0' = [subdirs |-> subdirs, root |-> root]
    /\ listing' = <<>>
    /\ attempted' = <<>>
    /\ failed' = {}
    /\ UNCHANGED <<fault, dir, choice, fn, subdirs, root, todo, getCalls, response,
                   filepath, writes, runCalls, result, out, pair>>

NextStageA ==
    \/ \E d \in Dirs, c \in Choices : Main(d, c)
    \/ ListDir
    \/ CleanStep
    \/ Rerun

SpecStageA == Init /\ [][NextStageA]_vars

----------------------------------------------------------------------------
\* getLut and getGo side by side: each procedure as a function from its
\* arguments and the outcomes of its collaborators to what it does

\* what requests.get may do
GetOutcomes ==
    { [raises |-> TRUE, status |-> 0, content |-> <<>>] }
        \cup { [raises |-> FALSE, status |-> r.status, content |-> r.content] :
                 r \in Responses }

\* what subprocess.run may do
RunOutcomes ==
    { [raises |-> TRUE, r |-> NoResult] } \cup { [raises |-> FALSE, r |-> r] : r \in Results }

\* the outcomes of the collaborators: whether the subdirectory exists, what
\* os.listdir returns, the entries os.remove raises on, what requests.get
\* does, whether open ("open") or write ("write") raises, what subprocess.run
\* does
Envs ==
    UNION { UNION { [exists : BOOLEAN, list : {l}, rmFail : SUBSET Range(l),
                     get : GetOutcomes, wr : {"ok", "open", "write"},
                     run : RunOutcomes] : l \in Perms(S) } : S \in DirStates }

\* the arguments a procedure may be called with
Args == [directory : Dirs, fileSuffix : {S_ts, <<"t", "s">>}, url : {LutUrl, GoUrl}]

\* what a procedure did
Effect(stages, removes, gets, opens, written, runs, lines, end) ==
    [stages |-> stages, removes |-> removes, gets |-> gets, opens |-> opens,
     written |-> written, runs |-> runs, out |-> lines, end |-> end]

RemoveLines(removes) ==
    [i \in 1..Len(removes) |->
        Line(IF removes[i].ok THEN "Deleted" ELSE "Error deleting", removes[i].path)]

RunLines(o) ==
    IF o.raises THEN <<Line("Error running flatc", <<"OSError">>)>>
    ELSE <<Line("Command output", o.r.stdout)>>
             \o (IF o.r.stderr # <<>> THEN <<Line("Command error", o.r.stderr)>> ELSE <<>>)

RECURSIVE LutLoop(_, _, _, _)
\* getLut: the for loop over os.listdir(os.path.join(directory, "lut"))
LutLoop(directory, fileSuffix, l, E) ==
    IF l = <<>> THEN <<>>
    ELSE LET filename == Head(l)
             file_path == Join(Join(directory, S_lut), filename)
             rest == LutLoop(directory, fileSuffix, Tail(l), E)
         IN  IF EndsWith(filename, fileSuffix)
             THEN <<[path |-> file_path, ok |-> filename \notin E.rmFail]>> \o rest
             ELSE rest

\* getLut(directory, fileSuffix, url)
GetLut(directory, fileSuffix, url, E) ==
    IF ~E.exists
    THEN Effect(<<"Cleaning">>, <<>>, <<>>, <<>>, <<>>, <<>>, <<>>, "Fault")
    ELSE
      LET removes == LutLoop(directory, fileSuffix, E.list, E)
          filename == Basename(url)
          fpath == Join(directory, filename)    \* the local filepath
          failure(e) == <<Line("Error downloading file", <<e>>)>>
      IN  IF E.get.raises
          THEN Effect(<<"Cleaning", "Fetching">>, removes, <<url>>, <<>>, <<>>, <<>>,
                      RemoveLines(removes) \o failure("RequestException"), "Aborted")
          ELSE IF RaisesForStatus(E.get.status)
          THEN Effect(<<"Cleaning", "Fetching">>, removes, <<url>>, <<>>, <<>>, <<>>,
                      RemoveLines(removes) \o failure("HTTPError"), "Aborted")
          ELSE IF E.wr # "ok"
          THEN Effect(<<"Cleaning", "Fetching">>, removes, <<url>>, <<fpath>>, <<>>, <<>>,
                      RemoveLines(removes) \o failure("OSError"), "Aborted")
          ELSE Effect(<<"Cleaning", "Fetching", "Generating">>, removes, <<url>>,
                      <<fpath>>, <<[path |-> fpath, content |-> E.get.content]>>,
                      <<FlatcArgs("getLut", directory, fpath)>>,
                      RemoveLines(removes) \o <<Line("Downloaded", filename)>>
                          \o RunLines(E.run),
                      "Done")

RECURSIVE GoLoop_break(_, _, _, _)
\* a loop of getGo that stops at the first os.remove that raises
GoLoop_break(directory, fileSuffix, l, E) ==
    IF l = <<>> THEN <<>>
    ELSE LET filename == Head(l)
             file_path == Join(Join(directory, S_tree), filename)
         IN  IF EndsWith(filename, fileSuffix)
             THEN <<[path |-> file_path, ok |-> filename \notin E.rmFail]>>
                    \o (IF filename \in E.rmFail THEN <<>>
                        ELSE GoLoop_break(directory, fileSuffix, Tail(l), E))
             ELSE GoLoop_break(directory, fileSuffix, Tail(l), E)

RECURSIVE GoLoop(_, _, _, _)
\* getGo: the for loop over os.listdir(os.path.join(directory, "tree"))
GoLoop(directory, fileSuffix, l, E) ==
    IF l = <<>> THEN <<>>
    ELSE LET filename == Head(l)
             file_path == Join(Join(directory, S_tree), filename)
             rest == GoLoop(directory, fileSuffix, Tail(l), E)
         IN  IF EndsWith(filename, fileSuffix)
             THEN <<[path |-> file_path, ok |-> filename \notin E.rmFail]>> \o rest
             ELSE rest

\* getGo(directory, fileSuffix, url)
GetGo(directory, fileSuffix, url, E) ==
    IF ~E.exists
    THEN Effect(<<"Cleaning">>, <<>>, <<>>, <<>>, <<>>, <<>>, <<>>, "Fault")
    ELSE
      LET removes == GoLoop(directory, fileSuffix, E.list, E)
          filename == Basename(url)
          fpath == Join(directory, filename)    \* the local filepath
          failure(e) == <<Line("Error downloading file", <<e>>)>>
      IN  IF E.get.raises
          THEN Effect(<<"Cleaning", "Fetching">>, removes, <<url>>, <<>>, <<>>, <<>>,
                      RemoveLines(removes) \o failure("RequestException"), "Aborted")
          ELSE IF RaisesForStatus(E.get.status)
          THEN Effect(<<"Cleaning", "Fetching">>, removes, <<url>>, <<>>, <<>>, <<>>,
                      RemoveLines(removes) \o failure("HTTPError"), "Aborted")
          ELSE IF E.wr # "ok"
          THEN Effect(<<"Cleaning", "Fetching">>, removes, <<url>>, <<fpath>>, <<>>, <<>>,
                      RemoveLines(removes) \o failure("OSError"), "Aborted")
          ELSE Effect(<<"Cleaning", "Fetching", "Generating">>, removes, <<url>>,
                      <<fpath>>, <<[path |-> fpath, content |-> E.get.content]>>,
                      <<FlatcArgs("getGo", directory, fpath)>>,
                      RemoveLines(removes) \o <<Line("Downloaded", filename)>>
                          \o RunLines(E.run),
                      "Done")

\* no process: the arguments and the outcomes are drawn, nothing has run
InitPair ==
    /\ pc = "Idle"
    /\ fault = <<>>
    /\ dir = <<>>
    /\ choice = <<>>
    /\ fn = "none"
    /\ subdirs = <<>>
    /\ root = <<>>
    /\ disk0 = [subdirs |-> subdirs, root |-> root]
    /\ listing = <<>>
    /\ todo = <<>>
    /\ attempted = <<>>
    /\ failed = {}
    /\ getCalls = <<>>
    /\ response = <<>>
    /\ filepath = <<>>
    /\ writes = <<>>
    /\ runCalls = <<>>
    /\ result = <<>>
    /\ out = <<>>
    /\ pass = 1
    /\ \E a \in Args, E \in Envs : pair = <<[args |-> a, env |-> E]>>

\* both procedures run on the same arguments and outcomes
ApplyBoth ==
    /\ Len(pair) = 1
    /\ LET a == pair[1].args
           E == pair[1].env
       IN  pair' = <<pair[1],
                     GetLut(a.directory, a.fileSuffix, a.url, E),
                     GetGo(a.directory, a.fileSuffix, a.url, E)>>
    /\ UNCHANGED <<pc, fault, dir, choice, fn, subdirs, root, disk0, listing, todo,
                   attempted, failed, getCalls, response, filepath, writes,
                   runCalls, result, out, pass>>

NextPair == ApplyBoth

SpecPair == InitPair /\ [][NextPair]_vars

TypeOK ==
    /\ pc \in PcValues
    /\ fn \in {"none", "getLut", "getGo"}
    /\ Len(response) <= 1
    /\ Len(result) <= 1

----------------------------------------------------------------------------
\* Vocabulary of the properties

\* name = prefix \o suffix for some prefix
HasSuffix(name, suffix) ==
    \E k \in 0..Len(name) : name = SubSeq(name, 1, k) \o suffix

\* the entries of the listing a deletion is due for
Stale(l) == { e \in Range(l) : HasSuffix(e, S_ts) }

\* a 2xx status
IsSuccess(status) == 200 <= status /\ status < 300

\* requests.get was called and raised
TransportFailed == getCalls # <<>> /\ response = <<>>

\* requests.get returned a response whose status is not 2xx
BadStatus == response # <<>> /\ ~IsSuccess(response[1].status)

\* requests.get returned a response with a 2xx status
FetchSucceeded == response # <<>> /\ IsSuccess(response[1].status)

\* the name of the schema file in the target directory
SchemaName == IF fn = "getLut" THEN <<"l","u","t",".","f","b","s">>
              ELSE <<"g","o",".","f","b","s">>

\* the lines of a kind printed about arg
Printed(kind, arg) ==
    { i \in 1..Len(out) : out[i].kind = kind /\ out[i].arg = arg }

PrintedKind(kind) == { i \in 1..Len(out) : out[i].kind = kind }

\* the path the program prints for an entry of the cleanup subdirectory
EntryPath(e) == dir \o (IF dir[Len(dir)] = SEP THEN <<>> ELSE <<SEP>>)
                    \o SubdirOf(fn) \o <<SEP>> \o e

\* the cleanup subdirectory of the run was missing when the process started
SubdirMissing == fn # "none" /\ SubdirOf(fn) \notin DOMAIN disk0.subdirs

----------------------------------------------------------------------------
\* C1: if the GET fails at transport level or returns a non-success status,
\* the generator is never invoked in that run.
C1_FetchFailureNoGenerator ==
    (TransportFailed \/ BadStatus) => runCalls = <<>>

\* C2: if the fetch returns a non-2xx status, the files of the target
\* directory root and their contents stay what they were before the fetch
\* (the root is what it was when the process started: nothing before Stage B
\* writes there).
C2_BadStatusWritesNothing ==
    BadStatus => root = disk0.root

\* C3: the GET is issued only once a deletion was attempted for every stale
\* entry of the listing and the loop is over, nothing is deleted once the GET
\* was issued, the file is written only after the GET returned, and the
\* generator is invoked only once the body is on disk under the path it gets.
C3_StagesInOrder ==
    [][ /\ (getCalls' # getCalls) =>
              /\ pc = "Fetching"
              /\ todo = <<>>
              /\ Range(attempted) = Stale(listing)
              /\ writes = <<>> /\ runCalls = <<>>
        /\ (attempted' # attempted \/ subdirs' # subdirs) =>
              getCalls' = <<>>
        /\ (writes' # writes \/ root' # root) =>
              /\ response # <<>>
              /\ runCalls' = <<>>
        /\ (runCalls' # runCalls) =>
              /\ writes # <<>>
              /\ filepath = writes[Len(writes)]
              /\ SchemaName \in DOMAIN root
              /\ root[SchemaName] = response[1].content
      ]_vars

C3_Witness ==
    /\ pc = "Done"
    /\ Len(attempted) >= 2
    /\ result # <<>>

\* C4: an os.remove that raises does not end the cleanup: the loop goes on
\* with the next entry, it ends only once a deletion was attempted for every
\* stale entry of the listing, each failure has its own line of output, and
\* the run goes on to the fetch.
C4_DeleteFailureIsolated ==
    [][ /\ (pc = "Cleaning" /\ failed' # failed) =>
              /\ pc' = "Cleaning"
              /\ todo' = Tail(todo)
        /\ (pc = "Cleaning" /\ pc' # "Cleaning") =>
              /\ pc' = "Fetching"
              /\ Range(attempted) = Stale(listing)
              /\ Len(attempted) = Cardinality(Stale(listing))
              /\ \A e \in failed : Cardinality(Printed("Error deleting", EntryPath(e))) = 1
              /\ Cardinality(PrintedKind("Error deleting")) = Cardinality(failed)
      ]_vars

C4_Witness ==
    /\ getCalls # <<>>
    /\ Len(attempted) >= 2
    /\ attempted[1] \in failed
    /\ attempted[2] \notin failed

\* C5: when no deletion fails, after the cleanup the subdirectory holds
\* exactly the entries it held before whose names do not end with the suffix.
C5_CleanupRemovesExactlyStale ==
    (pc \in {"Fetching", "Writing", "Generating", "Done", "Aborted"} /\ failed = {}) =>
        subdirs[SubdirOf(fn)] =
            { e \in disk0.subdirs[SubdirOf(fn)] : ~HasSuffix(e, S_ts) }

C5_Witness ==
    /\ pc = "Fetching"
    /\ failed = {}
    /\ \E e \in disk0.subdirs[SubdirOf(fn)] : HasSuffix(e, S_ts)
    /\ subdirs[SubdirOf(fn)] # {}

\* C6: if the cleanup subdirectory does not exist, the run ends before the
\* fetch: no GET is issued, no file is opened or written, the generator is
\* not invoked.
C6_MissingSubdirStopsRun ==
    SubdirMissing =>
        /\ pc \in {"Listing", "Fault", "Aborted"}
        /\ getCalls = <<>>
        /\ writes = <<>>
        /\ root = disk0.root
        /\ subdirs = disk0.subdirs
        /\ runCalls = <<>>

C6_Witness ==
    /\ SubdirMissing
    /\ pc \notin {"Idle", "Listing"}

\* C7: no error of the taxonomy ends the process in an unhandled fault.
C7_NoUnhandledFault == pc # "Fault"

\* C8 as stated: if the fetch succeeds with body B, after Stage B the schema
\* file exists in the target directory with content B.
C8_FetchedFileHasBody_AsStated ==
    (FetchSucceeded /\ pc \in {"Generating", "Done", "Aborted"}) =>
        /\ SchemaName \in DOMAIN root
        /\ root[SchemaName] = response[1].content

\* C8 amended: if the fetch succeeds with body B and opening and writing the
\* file raise no error, after Stage B the schema file exists in the target
\* directory with content B, whatever was there before.
C8_FetchedFileHasBody ==
    (FetchSucceeded /\ pc \in {"Generating", "Done"}) =>
        /\ SchemaName \in DOMAIN root
        /\ root[SchemaName] = response[1].content
        /\ writes = <<dir \o (IF dir[Len(dir)] = SEP THEN <<>> ELSE <<SEP>>) \o SchemaName>>

C8_Witness ==
    /\ FetchSucceeded
    /\ pc = "Generating"
    /\ SchemaName \in DOMAIN disk0.root
    /\ root[SchemaName] = response[1].content
    /\ root[SchemaName] # disk0.root[SchemaName]

\* C9: if subprocess.run raises, the run ends in Done, with the launch error
\* as the last line of output, and neither in a fault nor in Aborted.
C9_LaunchFailureReachesDone ==
    (runCalls # <<>> /\ result = <<>>) =>
        /\ pc = "Done"
        /\ fault = <<>>
        /\ out[Len(out)].kind = "Error running flatc"

C9_Witness ==
    /\ runCalls # <<>>
    /\ result = <<>>
    /\ pc = "Done"

\* C10: once the generator has run, the run ends in Done for every return
\* code and every error stream; a non-empty error stream is printed, an empty
\* one is not.
C10_GeneratingAlwaysDone ==
    result # <<>> =>
        /\ pc = "Done"
        /\ fault = <<>>
        /\ Cardinality(PrintedKind("Command output")) = 1
        /\ Cardinality(PrintedKind("Command error")) =
              (IF result[1].stderr # <<>> THEN 1 ELSE 0)

C10_Witness ==
    /\ result # <<>>
    /\ result[1].returncode # 0
    /\ result[1].stderr # <<>>
    /\ pc = "Done"

----------------------------------------------------------------------------
\* Vocabulary of the properties about the selection and the generator call

\* the index a choice denotes: a decimal numeral of 1 or 2 (leading zeros
\* allowed), 0 for any other string
ChoiceIndex(c) ==
    IF /\ Len(c) >= 1
       /\ \A i \in 1..(Len(c) - 1) : c[i] = "0"
       /\ c[Len(c)] \in {"1", "2"}
    THEN (IF c[Len(c)] = "1" THEN 1 ELSE 2)
    ELSE 0

\* the configuration of each variant, as the specification fixes it
ConfigOf(i) ==
    IF i = 1
    THEN [proc |-> "getLut", subdir |-> <<"l","u","t">>, suffix |-> <<".","t","s">>,
          url |-> UrlPrefix \o <<"l","u","t",".","f","b","s">>]
    ELSE [proc |-> "getGo", subdir |-> <<"t","r","e","e">>, suffix |-> <<".","t","s">>,
          url |-> UrlPrefix \o <<"g","o",".","f","b","s">>]

\* directory/name, with one separator between the two
Under(directory, name) ==
    directory \o (IF directory[Len(directory)] = SEP THEN <<>> ELSE <<SEP>>) \o name

\* the lines printed about deletions
DeletionLines ==
    { i \in 1..Len(out) : out[i].kind \in {"Deleted", "Error deleting"} }

\* nothing on disk changed and no collaborator was called
NoSideEffects ==
    /\ subdirs = disk0.subdirs
    /\ root = disk0.root
    /\ listing = <<>> /\ attempted = <<>>
    /\ getCalls = <<>> /\ writes = <<>> /\ runCalls = <<>>

----------------------------------------------------------------------------
\* C11: for any invalid choice (not a number, zero, negative, beyond the
\* list) the selection fails with the invalid-choice message and nothing
\* else happens: no listing, no deletion, no write, no GET, no generator.
C11_InvalidChoiceRejected ==
    (pc # "Idle" /\ ChoiceIndex(choice) = 0) =>
        /\ pc = "Rejected"
        /\ fault = <<>>
        /\ fn = "none"
        /\ Cardinality(PrintedKind("Invalid choice")) = 1
        /\ NoSideEffects

\* C12: the configuration is a function of the choice alone: choice 1 runs
\* getLut on subdirectory lut, suffix .ts and the lut.fbs URL, choice 2 runs
\* getGo on tree, .ts and the go.fbs URL, whatever the target directory and
\* whatever earlier runs left on disk.
C12_SelectionIsFunctionOfChoice ==
    (pc # "Idle" /\ ChoiceIndex(choice) # 0) =>
        LET cfg == ConfigOf(ChoiceIndex(choice))
        IN  /\ fn = cfg.proc
            /\ pc = "Fault" => cfg.subdir \notin DOMAIN disk0.subdirs
            /\ pc \notin {"Listing", "Fault"} =>
                  /\ cfg.subdir \in DOMAIN disk0.subdirs
                  /\ Range(listing) = disk0.subdirs[cfg.subdir]
            /\ Range(attempted) \subseteq { e \in Range(listing) : HasSuffix(e, cfg.suffix) }
            /\ \A i \in DeletionLines :
                  \E e \in Range(attempted) :
                      out[i].arg = Under(Under(dir, cfg.subdir), e)
            /\ \A i \in 1..Len(getCalls) : getCalls[i] = cfg.url

C12_Witness ==
    /\ choice = <<"0", "1">>
    /\ fn = "getLut"
    /\ attempted # <<>>
    /\ getCalls # <<>>
    /\ DOMAIN disk0.root # {}

\* C13: whenever the generator is invoked, its output directory is the
\* target directory the caller gave and its input file is the path the fetch
\* stage wrote in this run, targetDirectory/<basename of the URL>, which is on
\* disk with the fetched body.
C13_GeneratorArguments ==
    \A i \in 1..Len(runCalls) :
        LET argv == runCalls[i]
        IN  /\ Len(argv) = 5
            /\ argv[4] = dir
            /\ writes # <<>>
            /\ argv[5] = writes[Len(writes)]
            /\ argv[5] = Under(dir, SchemaName)
            /\ SchemaName \in DOMAIN root
            /\ root[SchemaName] = response[1].content

C13_Witness ==
    /\ runCalls # <<>>
    /\ dir = <<"/", "x", "/">>
    /\ fn = "getGo"

----------------------------------------------------------------------------
\* C14 (under SpecStageA): the cleanup stage is idempotent. An execution that
\* starts on a subdirectory without a stale entry attempts no deletion and
\* changes nothing on disk; and the second of two executions in a row starts
\* on such a subdirectory whenever no deletion of the first one failed, so two
\* executions leave what one leaves.
C14_StageAIdempotent ==
    /\ (pc = "Cleaning" /\ Stale(listing) = {}) =>
          /\ attempted = <<>>
          /\ subdirs = disk0.subdirs
          /\ root = disk0.root
    /\ (pass = 2 /\ PrintedKind("Error deleting") = {}) =>
          /\ fn # "none" /\ SubdirOf(fn) \in DOMAIN disk0.subdirs
          /\ { e \in disk0.subdirs[SubdirOf(fn)] : HasSuffix(e, S_ts) } = {}
          /\ subdirs = disk0.subdirs

C14_Witness ==
    /\ pass = 2
    /\ pc = "Cleaning"
    /\ todo = <<>>
    /\ listing # <<>>
    /\ PrintedKind("Deleted") # {}
    /\ PrintedKind("Error deleting") = {}
    /\ subdirs = disk0.subdirs

----------------------------------------------------------------------------
\* open() or f.write() raised: the download's except clause printed an OSError
WriteFailed ==
    { i \in 1..Len(out) : out[i].kind = "Error downloading file"
                            /\ out[i].arg = <<"OSError">> } # {}

\* C15: a failure to open or write the schema file is fatal like a fetch
\* failure: the run ends in Aborted and the generator is never invoked.
C15_WriteFailureAborts ==
    WriteFailed =>
        /\ pc = "Aborted"
        /\ fault = <<>>
        /\ runCalls = <<>>
        /\ result = <<>>

\* the file was opened and truncated, and the write raised
C15_Witness ==
    /\ WriteFailed
    /\ pc = "Aborted"
    /\ FetchSucceeded
    /\ SchemaName \in DOMAIN root
    /\ root[SchemaName] # response[1].content
    /\ root[SchemaName] # <<>>

\* C16 as stated: after a run that ends in Done, the cleanup subdirectory
\* holds no stale file that was there before the run.
C16_NoOldStaleAfterDone_AsStated ==
    pc = "Done" =>
        { e \in subdirs[SubdirOf(fn)] \cap disk0.subdirs[SubdirOf(fn)] :
              HasSuffix(e, S_ts) } = {}

\* C16 amended: after a run that ends in Done, the stale files of before the
\* run that the cleanup subdirectory still holds are exactly those whose
\* deletion failed, each reported; every other one is gone.
C16_NoOldStaleAfterDone ==
    pc = "Done" =>
        /\ { e \in subdirs[SubdirOf(fn)] \cap disk0.subdirs[SubdirOf(fn)] :
                 HasSuffix(e, S_ts) } = failed
        /\ \A e \in failed : Printed("Error deleting", EntryPath(e)) # {}

C16_Witness ==
    /\ pc = "Done"
    /\ failed # {}
    /\ \E e \in disk0.subdirs[SubdirOf(fn)] :
          HasSuffix(e, S_ts) /\ e \notin subdirs[SubdirOf(fn)]

----------------------------------------------------------------------------
\* the state of the run's state machine a position of the process belongs to
Stage(p) ==
    CASE p \in {"Listing", "Cleaning"} -> "Cleaning"
      [] p \in {"Fetching", "Writing"} -> "Fetching"
      [] OTHER -> p

\* the transitions of the state machine; Done and Aborted have none
Transitions ==
    { <<"Idle", "Cleaning">>,
      <<"Cleaning", "Cleaning">>, <<"Cleaning", "Fetching">>, <<"Cleaning", "Aborted">>,
      <<"Fetching", "Fetching">>, <<"Fetching", "Generating">>, <<"Fetching", "Aborted">>,
      <<"Generating", "Done">> }

\* C17: every step of a run (a step after which a procedure has been called)
\* is a transition of Idle -> Cleaning -> Fetching -> Generating -> Done, with
\* Aborted entered from Cleaning or Fetching only, Done from Generating only,
\* and no step out of Done or Aborted.
C17_StateMachine ==
    [][ fn' # "none" => <<Stage(pc), Stage(pc')>> \in Transitions ]_vars

\* C18: every generator invocation, of the LUT and of the Go variant alike,
\* is flatc --ts -o <directory> <file>.
C18_AlwaysTsFlag ==
    \A i \in 1..Len(runCalls) :
        /\ runCalls[i][1] = <<"f", "l", "a", "t", "c">>
        /\ runCalls[i][2] = <<"-", "-", "t", "s">>
        /\ runCalls[i][3] = <<"-", "o">>

C18_Witness ==
    /\ fn = "getGo"
    /\ runCalls # <<>>
    /\ pc = "Done"

----------------------------------------------------------------------------
\* C19 (under SpecPair): on the same arguments and the same outcomes of the
\* collaborators, getLut and getGo go through the same stages, make the same
\* GET, open, write and generator calls, print the same lines and end in the
\* same state; they differ only in the subdirectory (lut, tree) of the paths
\* they delete.
C19_SamePipeline ==
    Len(pair) = 3 =>
        LET d == pair[1].args.directory
            L == pair[2]
            G == pair[3]
        IN  /\ L.stages = G.stages
            /\ L.gets = G.gets
            /\ L.opens = G.opens
            /\ L.written = G.written
            /\ L.runs = G.runs
            /\ L.end = G.end
            /\ Len(L.removes) = Len(G.removes)
            /\ \A i \in 1..Len(L.removes) :
                  /\ L.removes[i].ok = G.removes[i].ok
                  /\ \E e \in Range(pair[1].env.list) :
                        /\ L.removes[i].path = Under(Under(d, <<"l","u","t">>), e)
                        /\ G.removes[i].path = Under(Under(d, <<"t","r","e","e">>), e)
            /\ Len(L.out) = Len(G.out)
            /\ \A i \in 1..Len(L.out) :
                  /\ L.out[i].kind = G.out[i].kind
                  /\ i > Len(L.removes) => L.out[i].arg = G.out[i].arg

C19_Witness ==
    /\ Len(pair) = 3
    /\ pair[2].end = "Done"
    /\ pair[3].end = "Done"
    /\ Len(pair[3].removes) >= 2
    /\ ~pair[3].removes[1].ok
    /\ pair[1].env.run.raises

----------------------------------------------------------------------------
\* the cleanup subdirectory of the variant the run is for
OwnSubdir == IF fn = "getLut" THEN <<"l","u","t">> ELSE <<"t","r","e","e">>

\* C20: the pipeline deletes nothing but entries of its own cleanup
\* subdirectory whose names end with the suffix, and opens for writing nothing
\* but targetDirectory/<basename of the URL>: no subdirectory appears or
\* disappears, the other variant's subdirectory keeps its entries, no file of
\* the target directory root is deleted and no other file of it changes.
C20_FrameOfTheRun ==
    /\ DOMAIN subdirs = DOMAIN disk0.subdirs
    /\ DOMAIN disk0.root \subseteq DOMAIN root
    /\ fn = "none" => (subdirs = disk0.subdirs /\ root = disk0.root)
    /\ fn # "none" =>
          /\ \A o \in DOMAIN subdirs :
                IF o = OwnSubdir
                THEN /\ subdirs[o] \subseteq disk0.subdirs[o]
                     /\ \A e \in disk0.subdirs[o] \ subdirs[o] : HasSuffix(e, S_ts)
                ELSE subdirs[o] = disk0.subdirs[o]
          /\ \A n \in DOMAIN root :
                n # SchemaName => (n \in DOMAIN disk0.root /\ root[n] = disk0.root[n])
          /\ \A i \in 1..Len(writes) : writes[i] = Under(dir, SchemaName)

C20_Witness ==
    /\ pc = "Done"
    /\ fn = "getGo"
    /\ DOMAIN disk0.root = {<<"l","u","t",".","f","b","s">>, <<"g","o",".","f","b","s">>}
    /\ root[SchemaName] # disk0.root[SchemaName]
    /\ <<"l","u","t">> \in DOMAIN subdirs
    /\ \E e \in subdirs[<<"l","u","t">>] : HasSuffix(e, S_ts)
    /\ subdirs[OwnSubdir] # disk0.subdirs[OwnSubdir]

====
